---- MODULE Spec2Model ----
(***************************************************************************)
(* HAMMER transaction bracketing, TID allocation and the per-directory     *)
(* object-id cache (vfs/hammer/hammer_transaction.c).                      *)
(*                                                                         *)
(* Identifiers are 64-bit in the source.  The model keeps the arithmetic   *)
(* (wrap-around, masking, the exhaustion test) on TidBits-bit words, and   *)
(* keeps the shape of the exhaustion bound: 0xFFFFFFFFFF000000 is          *)
(* 2^64 - 2^24, here 2^TidBits - 2^HeadBits.  HAMMER_MAX_MASTERS (16 in    *)
(* the source) stays a power of two, 2^MasterBits, and OBJID_CACHE_SIZE    *)
(* and OBJID_CACHE_BULK are scaled down.  As in the source, one bulk       *)
(* reservation is smaller than the head room above the bound.              *)
(***************************************************************************)
EXTENDS Integers, Sequences, FiniteSets, TLC

\* ------------------------------------------------------------- bounds
TidBits == 8
HeadBits == 5
MasterBits == 1
OBJID_CACHE_SIZE == 2
OBJID_CACHE_BULK == 3
StartGap == 14
MaxSyncRefs == 2
MaxCount == 5
MaxCalls == 2

\* ---------------------------------------------------------- constants
NULL == 0

TidMod == 2 ^ TidBits

HAMMER_MAX_MASTERS == 2 ^ MasterBits

TID_LIMIT == TidMod - 2 ^ HeadBits

Dirs == {"A", "B"}

\* The directories of the mount: those of Dirs and one more, which only the
\* specification of the eviction order creates objects in.
AllDirs == Dirs \cup {"C"}

Procs == {"p1", "p2"}

Ocps == 1 .. (OBJID_CACHE_SIZE + Cardinality(Procs))

TransTypes == {"STD", "RO", "FLS"}

TransFlags == {"NEWINODE", "DIDIO"}

\* --------------------------------------------------- word arithmetic
\* hammer_tid_t is an unsigned word: sums wrap.
Wrap(x) == x % TidMod

RECURSIVE BitAnd(_, _, _)
BitAnd(a, b, n) ==
    IF n = 0 THEN 0
    ELSE (a % 2) * (b % 2) + 2 * BitAnd(a \div 2, b \div 2, n - 1)

RECURSIVE BitOr(_, _, _)
BitOr(a, b, n) ==
    IF n = 0 THEN 0
    ELSE (IF a % 2 = 1 \/ b % 2 = 1 THEN 1 ELSE 0)
         + 2 * BitOr(a \div 2, b \div 2, n - 1)

BitNot(a) == TidMod - 1 - a

\* ------------------------------------------------------ TID allocator
\* A mutation of the allocator: next_tid advances by one slot, whatever
\* count the caller reserves.
hammer_alloc_tid_nocount(nt, mid, count) ==
    IF mid < 0
    THEN LET tid == Wrap(nt + 1)
         IN  [tid |-> tid, next_tid |-> Wrap(tid + 1)]
    ELSE LET base == BitAnd(Wrap(nt + HAMMER_MAX_MASTERS),
                            BitNot(HAMMER_MAX_MASTERS - 1), TidBits)
         IN  [tid |-> BitOr(base, mid, TidBits),
              next_tid |-> Wrap(base + HAMMER_MAX_MASTERS)]

\* A mutation: a single master hands out next_tid itself, not the tid
\* after it.
hammer_alloc_tid_noskip(nt, mid, count) ==
    IF mid < 0
    THEN LET tid == Wrap(nt)
         IN  [tid |-> tid, next_tid |-> Wrap(tid + count)]
    ELSE LET base == BitAnd(Wrap(nt + HAMMER_MAX_MASTERS),
                            BitNot(HAMMER_MAX_MASTERS - 1), TidBits)
         IN  [tid |-> BitOr(base, mid, TidBits),
              next_tid |-> Wrap(base + count * HAMMER_MAX_MASTERS)]

\* A mutation: a master of several rounds next_tid up to a multiple of
\* HAMMER_MAX_MASTERS and stays on next_tid when it is one.
hammer_alloc_tid_roundup(nt, mid, count) ==
    IF mid < 0
    THEN LET tid == Wrap(nt + 1)
         IN  [tid |-> tid, next_tid |-> Wrap(tid + count)]
    ELSE LET base == BitAnd(Wrap(nt + HAMMER_MAX_MASTERS - 1),
                            BitNot(HAMMER_MAX_MASTERS - 1), TidBits)
         IN  [tid |-> BitOr(base, mid, TidBits),
              next_tid |-> Wrap(base + count * HAMMER_MAX_MASTERS)]

\* hammer_alloc_tid(hmp, count): the returned tid and the new hmp->next_tid.
hammer_alloc_tid(nt, mid, count) ==
    IF mid < 0
    THEN LET tid == Wrap(nt + 1)
         IN  [tid |-> tid, next_tid |-> Wrap(tid + count)]
    ELSE LET base == BitAnd(Wrap(nt + HAMMER_MAX_MASTERS),
                            BitNot(HAMMER_MAX_MASTERS - 1), TidBits)
         IN  [tid |-> BitOr(base, mid, TidBits),
              next_tid |-> Wrap(base + count * HAMMER_MAX_MASTERS)]

\* A mutation: the bound itself is let through.
RanOutOfTids_above(tid) == tid > TID_LIMIT

\* The exhaustion test that ends in panic().
RanOutOfTids(tid) == tid >= TID_LIMIT

\* ------------------------------------------------------------- state
VARIABLES
    next_tid,            \* hmp->next_tid
    master_id,           \* hmp->master_id
    objid_cache_list,    \* hmp->objid_cache_list, head first
    objid_cache_count,   \* hmp->objid_cache_count
    ocps,                \* the hammer_objid_cache structures, by address
    objid_cache,         \* dip->objid_cache of every directory
    pc,                  \* where each caller of hammer_alloc_objid stands
    dip,                 \* the directory of a caller blocked in kmalloc
    trans,               \* a struct hammer_transaction and its waits
    halt,                \* "run", or why the kernel stopped
    ret,                 \* the last return of hammer_alloc_objid (see NoRet)
    nissued,             \* how many ids were returned as an OID or flusher tid
    depleted,            \* directories whose last id was the last of its entry
    oids,                \* the ids returned by hammer_alloc_objid
    fls_tids,            \* the tids given to flusher transactions
    recency,             \* the entries allocated from, least recent first
    last_oid,            \* the last id returned to each directory, or 0
    tid_log              \* <<base, count>> of direct hammer_alloc_tid calls

vars == <<next_tid, master_id, objid_cache_list, objid_cache_count, ocps,
          objid_cache, pc, dip, trans, halt, ret, nissued, depleted, oids,
          fls_tids, recency, last_oid, tid_log>>

histvars == <<ret, nissued, depleted, oids, fls_tids, recency, last_oid>>

poolvars == <<objid_cache_list, objid_cache_count, ocps, objid_cache>>

FreeOcp == [live |-> FALSE, next_tid |-> 0, count |-> 0, dip |-> "NULL"]

NoTrans == [state |-> "idle", type |-> "RO", rootvol |-> "NULL", tid |-> 0,
            sync_lock_refs |-> 0, flags |-> {}, waits |-> {}]

\* What the last hammer_alloc_objid to return did: its directory, the id it
\* returned, how it came by its entry ("bound": the directory had one,
\* "new": kmalloc, "evict": TAILQ_FIRST) and whether the directory's
\* previous id had used up its entry.
NoRet == [dip |-> "NULL", tid |-> 0, how |-> "none", refill |-> FALSE]

MasterIds == {-1} \cup (0 .. HAMMER_MAX_MASTERS - 1)

StartTids == {TID_LIMIT - StartGap, TID_LIMIT - StartGap + 1}

InitMount ==
    /\ objid_cache_list = <<>>
    /\ objid_cache_count = 0
    /\ ocps = [o \in Ocps |-> FreeOcp]
    /\ objid_cache = [d \in AllDirs |-> NULL]
    /\ pc = [p \in Procs |-> "idle"]
    /\ dip = [p \in Procs |-> "NULL"]
    /\ trans = NoTrans
    /\ halt = "run"
    /\ ret = NoRet
    /\ nissued = 0
    /\ depleted = {}
    /\ oids = {}
    /\ fls_tids = {}
    /\ recency = <<>>
    /\ last_oid = [d \in AllDirs |-> 0]
    /\ tid_log = <<>>

Init ==
    /\ next_tid \in StartTids
    /\ master_id \in MasterIds
    /\ InitMount

\* ------------------------------------------------- the pool's TAILQ
\* A mutation: an insertion at the tail lands at the head.
TAILQ_INSERT_TAIL_front(list, o) == <<o>> \o list

TAILQ_FIRST(list) == IF list = <<>> THEN NULL ELSE Head(list)

TAILQ_REMOVE(list, o) == SelectSeq(list, LAMBDA x : x # o)

TAILQ_INSERT_HEAD(list, o) == <<o>> \o list

TAILQ_INSERT_TAIL(list, o) == Append(list, o)

\* kmalloc(sizeof(*ocp), M_WAITOK|M_ZERO): an address not in use.
kmalloc == CHOOSE o \in Ocps : ~ocps[o].live /\ \A q \in Ocps : q < o => ocps[q].live

\* ------------------------------------------------------ OID allocator
\* A mutation: the pool admits one entry more than OBJID_CACHE_SIZE.
PoolHasRoom_offbyone(count) == count <= OBJID_CACHE_SIZE

\* The test that decides between a new entry and an eviction.
PoolHasRoom(count) == count < OBJID_CACHE_SIZE

\* A mutation: the entry's next id is not advanced.
ObjidAdvance_stuck(nt, mid) == nt

\* A mutation: ids of an entry always advance by one.
ObjidAdvance_byone(nt, mid) == Wrap(nt + 1)

\* ocp->next_tid += (hmp->master_id < 0) ? 1 : HAMMER_MAX_MASTERS
ObjidAdvance(nt, mid) ==
    Wrap(nt + (IF mid < 0 THEN 1 ELSE HAMMER_MAX_MASTERS))

\* A mutation: the previous owner keeps its pointer to the evicted entry.
ClearOwner_keep(cache, owner) == cache

\* if (ocp->dip) ocp->dip->objid_cache = NULL
ClearOwner(cache, owner) ==
    IF owner # "NULL" THEN [cache EXCEPT ![owner] = NULL] ELSE cache

\* A mutation: the count is tested before it is decremented.
ObjidDepleted_postdec(left) == left + 1 = 0

\* if (--ocp->count == 0), on the decremented count
ObjidDepleted(left) == left = 0

\* The tail of hammer_alloc_objid, from TAILQ_REMOVE to the return: entry o
\* serves directory d; list, cache, ents and count are the pool as the loop
\* above left it.
ObjidTake(d, o, how, list, cache, ents, count) ==
    LET tid == ents[o].next_tid
        left == ents[o].count - 1
        removed == TAILQ_REMOVE(list, o)
    IN  /\ ret' = [dip |-> d, tid |-> tid, how |-> how,
                    refill |-> d \in depleted]
        /\ nissued' = nissued + 1
        /\ oids' = oids \cup {tid}
        /\ fls_tids' = fls_tids
        /\ last_oid' = [last_oid EXCEPT ![d] = tid]
        /\ recency' = IF ObjidDepleted(left) THEN TAILQ_REMOVE(recency, o)
                      ELSE Append(TAILQ_REMOVE(recency, o), o)
        /\ depleted' = IF ObjidDepleted(left) THEN depleted \cup {d}
                       ELSE depleted \ {d}
        /\ IF ObjidDepleted(left)
           THEN /\ objid_cache' = [cache EXCEPT ![d] = NULL]
                /\ objid_cache_count' = count - 1
                /\ ocps' = [ents EXCEPT ![o] = FreeOcp]
                /\ objid_cache_list' = removed
           ELSE /\ objid_cache' = cache
                /\ objid_cache_count' = count
                /\ ocps' = [ents EXCEPT ![o].next_tid = ObjidAdvance(tid, master_id),
                                        ![o].count = left]
                /\ objid_cache_list' = TAILQ_INSERT_TAIL(removed, o)

\* hammer_alloc_objid(hmp, dip) up to its return, or up to the point where
\* kmalloc(M_WAITOK) gives up the processor.
hammer_alloc_objid(p, d) ==
    /\ halt = "run"
    /\ pc[p] = "idle"
    /\ UNCHANGED <<next_tid, master_id, trans, tid_log>>
    /\ IF objid_cache[d] # NULL
       THEN /\ ObjidTake(d, objid_cache[d], "bound", objid_cache_list,
                         objid_cache, ocps, objid_cache_count)
            /\ UNCHANGED <<pc, dip, halt>>
       ELSE IF PoolHasRoom(objid_cache_count)
       THEN /\ pc' = [pc EXCEPT ![p] = "kmalloc"]
            /\ dip' = [dip EXCEPT ![p] = d]
            /\ UNCHANGED <<poolvars, halt, histvars>>
       ELSE LET ocp == TAILQ_FIRST(objid_cache_list)
            IN  IF ocp = NULL
                THEN \* ocp->dip read through a null pointer
                     /\ halt' = "fault"
                     /\ UNCHANGED <<poolvars, pc, dip, histvars>>
                ELSE /\ ObjidTake(d, ocp, "evict", objid_cache_list,
                                  [ClearOwner(objid_cache, ocps[ocp].dip)
                                      EXCEPT ![d] = ocp],
                                  [ocps EXCEPT ![ocp].dip = d],
                                  objid_cache_count)
                     /\ UNCHANGED <<pc, dip, halt>>

\* A mutation: after kmalloc the directory is not re-tested, the new entry
\* is bound to it whatever it holds.
kmalloc_return_norecheck(p) ==
    /\ halt = "run"
    /\ pc[p] = "kmalloc"
    /\ pc' = [pc EXCEPT ![p] = "idle"]
    /\ dip' = [dip EXCEPT ![p] = "NULL"]
    /\ UNCHANGED <<master_id, trans, tid_log>>
    /\ LET d == dip[p]
           ocp == kmalloc
           r == hammer_alloc_tid(next_tid, master_id, OBJID_CACHE_BULK)
       IN  /\ next_tid' = r.next_tid
           /\ IF RanOutOfTids(r.tid)
              THEN /\ halt' = "panic_tid"
                   /\ ocps' = [ocps EXCEPT ![ocp].live = TRUE]
                   /\ UNCHANGED <<objid_cache_list, objid_cache_count,
                                  objid_cache, histvars>>
              ELSE LET ents == [ocps EXCEPT ![ocp] =
                                   [live |-> TRUE, next_tid |-> r.tid,
                                    count |-> OBJID_CACHE_BULK, dip |-> d]]
                       cache == [objid_cache EXCEPT ![d] = ocp]
                   IN  /\ halt' = halt
                       /\ ObjidTake(d, ocp, "new",
                                    TAILQ_INSERT_HEAD(objid_cache_list, ocp),
                                    cache, ents, objid_cache_count + 1)

\* kmalloc returns to the caller of hammer_alloc_objid: the rest of the
\* creating branch, the loop's re-test and the tail.
kmalloc_return(p) ==
    /\ halt = "run"
    /\ pc[p] = "kmalloc"
    /\ pc' = [pc EXCEPT ![p] = "idle"]
    /\ dip' = [dip EXCEPT ![p] = "NULL"]
    /\ UNCHANGED <<master_id, trans, tid_log>>
    /\ LET d == dip[p]
           ocp == kmalloc
           r == hammer_alloc_tid(next_tid, master_id, OBJID_CACHE_BULK)
       IN  /\ next_tid' = r.next_tid
           /\ IF RanOutOfTids(r.tid)
              THEN /\ halt' = "panic_tid"
                   /\ ocps' = [ocps EXCEPT ![ocp].live = TRUE]
                   /\ UNCHANGED <<objid_cache_list, objid_cache_count,
                                  objid_cache, histvars>>
              ELSE LET bind == objid_cache[d] = NULL
                       ents == [ocps EXCEPT ![ocp] =
                                   [live |-> TRUE, next_tid |-> r.tid,
                                    count |-> OBJID_CACHE_BULK,
                                    dip |-> IF bind THEN d ELSE "NULL"]]
                       cache == IF bind THEN [objid_cache EXCEPT ![d] = ocp]
                                ELSE objid_cache
                   IN  /\ halt' = halt
                       /\ ObjidTake(d, cache[d],
                                    IF bind THEN "new" ELSE "bound",
                                    TAILQ_INSERT_HEAD(objid_cache_list, ocp),
                                    cache, ents, objid_cache_count + 1)

\* A mutation: the released entry goes to the tail of the list.
hammer_clear_objid_tail(d) ==
    /\ halt = "run"
    /\ UNCHANGED <<next_tid, master_id, objid_cache_count, pc, dip, trans,
                   halt, histvars, tid_log>>
    /\ LET ocp == objid_cache[d]
       IN  IF ocp # NULL
           THEN /\ objid_cache' = [objid_cache EXCEPT ![d] = NULL]
                /\ ocps' = [ocps EXCEPT ![ocp].dip = "NULL"]
                /\ objid_cache_list' =
                       TAILQ_INSERT_TAIL(TAILQ_REMOVE(objid_cache_list, ocp), ocp)
           ELSE UNCHANGED <<objid_cache, ocps, objid_cache_list>>

\* hammer_clear_objid(dip)
hammer_clear_objid(d) ==
    /\ halt = "run"
    /\ UNCHANGED <<next_tid, master_id, objid_cache_count, pc, dip, trans,
                   halt, histvars, tid_log>>
    /\ LET ocp == objid_cache[d]
       IN  IF ocp # NULL
           THEN /\ objid_cache' = [objid_cache EXCEPT ![d] = NULL]
                /\ ocps' = [ocps EXCEPT ![ocp].dip = "NULL"]
                /\ objid_cache_list' =
                       TAILQ_INSERT_HEAD(TAILQ_REMOVE(objid_cache_list, ocp), ocp)
           ELSE UNCHANGED <<objid_cache, ocps, objid_cache_list>>

\* A mutation: the loop is an if, only the first entry is destroyed.
DestroyAll_once(list, cache, ents) ==
    IF TAILQ_FIRST(list) = NULL
    THEN [list |-> list, cache |-> cache, ents |-> ents]
    ELSE LET ocp == TAILQ_FIRST(list)
         IN  [list |-> TAILQ_REMOVE(list, ocp),
              cache |-> ClearOwner(cache, ents[ocp].dip),
              ents |-> [ents EXCEPT ![ocp] = FreeOcp]]

\* The loop of hammer_destroy_objid_cache, run until the list is empty.
RECURSIVE DestroyAll(_, _, _)
DestroyAll(list, cache, ents) ==
    IF TAILQ_FIRST(list) = NULL
    THEN [list |-> list, cache |-> cache, ents |-> ents]
    ELSE LET ocp == TAILQ_FIRST(list)
         IN  DestroyAll(TAILQ_REMOVE(list, ocp),
                        ClearOwner(cache, ents[ocp].dip),
                        [ents EXCEPT ![ocp] = FreeOcp])

\* hammer_destroy_objid_cache(hmp)
hammer_destroy_objid_cache ==
    /\ halt = "run"
    /\ UNCHANGED <<next_tid, master_id, objid_cache_count, pc, dip, trans,
                   halt, ret, nissued, depleted, oids, fls_tids, last_oid,
                   tid_log>>
    /\ LET r == DestroyAll(objid_cache_list, objid_cache, ocps)
       IN  /\ recency' = SelectSeq(recency, LAMBDA o : r.ents[o].live)
           /\ objid_cache_list' = r.list
           /\ objid_cache' = r.cache
           /\ ocps' = r.ents

\* ------------------------------------------------------- transactions
\* hammer_get_root_volume(hmp, &error): the collaborator's error code.
RootVolErrors == {0, 5}

\* The fields hammer_start_transaction and hammer_simple_transaction set.
StartFields(type, error) ==
    [state |-> IF error = 0 THEN "active" ELSE "idle",
     type |-> type,
     rootvol |-> IF error = 0 THEN "rootvol" ELSE "NULL",
     tid |-> IF error = 0 THEN 0 ELSE trans.tid,
     sync_lock_refs |-> IF error = 0 THEN 0 ELSE trans.sync_lock_refs,
     flags |-> IF error = 0 THEN {} ELSE trans.flags,
     waits |-> {}]

\* hammer_start_transaction(trans, hmp)
hammer_start_transaction ==
    /\ halt = "run"
    /\ trans.state # "active"
    /\ \E error \in RootVolErrors :
          /\ trans' = StartFields("STD", error)
          /\ halt' = IF error = 0 THEN halt ELSE "panic_rootvol"
    /\ UNCHANGED <<next_tid, master_id, poolvars, pc, dip, histvars,
                   tid_log>>

\* hammer_simple_transaction(trans, hmp)
hammer_simple_transaction ==
    /\ halt = "run"
    /\ trans.state # "active"
    /\ \E error \in RootVolErrors :
          /\ trans' = StartFields("RO", error)
          /\ halt' = IF error = 0 THEN halt ELSE "panic_rootvol"
    /\ UNCHANGED <<next_tid, master_id, poolvars, pc, dip, histvars,
                   tid_log>>

\* A mutation: the flusher's transaction starts like a standard one,
\* holding no reference on the sync lock.
FlsFields_norefs(tid) ==
    [state |-> "active", type |-> "FLS", rootvol |-> "rootvol", tid |-> tid,
     sync_lock_refs |-> 0, flags |-> {}, waits |-> {}]

\* The fields hammer_start_transaction_fls sets once it has its tid.
FlsFields(tid) ==
    [state |-> "active", type |-> "FLS", rootvol |-> "rootvol", tid |-> tid,
     sync_lock_refs |-> 1, flags |-> {}, waits |-> {}]

\* hammer_start_transaction_fls(trans, hmp)
hammer_start_transaction_fls ==
    /\ halt = "run"
    /\ trans.state # "active"
    /\ UNCHANGED <<master_id, poolvars, pc, dip, tid_log>>
    /\ \E error \in RootVolErrors :
          LET zero == [NoTrans EXCEPT !.type = "FLS"]
              r == hammer_alloc_tid(next_tid, master_id, 1)
          IN  IF error # 0
              THEN /\ trans' = zero
                   /\ halt' = "panic_rootvol"
                   /\ UNCHANGED <<next_tid, histvars>>
              ELSE /\ next_tid' = r.next_tid
                   /\ IF RanOutOfTids(r.tid)
                      THEN /\ trans' = [zero EXCEPT !.rootvol = "rootvol"]
                           /\ halt' = "panic_tid"
                           /\ UNCHANGED histvars
                      ELSE /\ trans' = FlsFields(r.tid)
                           /\ halt' = halt
                           /\ fls_tids' = fls_tids \cup {r.tid}
                           /\ nissued' = nissued + 1
                           /\ UNCHANGED <<ret, depleted, oids, recency,
                                          last_oid>>

\* A mutation: every kind of transaction is expected to hold no lock.
ExpectedLockRefs_zero(type) == 0

\* expected_lock_refs = (trans->type == HAMMER_TRANS_FLS) ? 1 : 0
ExpectedLockRefs(type) == IF type = "FLS" THEN 1 ELSE 0

\* A mutation: the waits do not look at the kind of the transaction.
DoneWaits_anykind(type, flags) ==
    IF "NEWINODE" \in flags THEN {"hammer_inode_waitreclaims"}
    ELSE IF "DIDIO" \in flags THEN {"hammer_inode_waithard"}
    ELSE {}

\* The collaborators hammer_done_transaction calls after the lock check.
DoneWaits(type, flags) ==
    IF type # "FLS"
    THEN IF "NEWINODE" \in flags THEN {"hammer_inode_waitreclaims"}
         ELSE IF "DIDIO" \in flags THEN {"hammer_inode_waithard"}
         ELSE {}
    ELSE {}

\* hammer_done_transaction(trans)
hammer_done_transaction ==
    /\ halt = "run"
    /\ trans.state = "active"
    /\ UNCHANGED <<next_tid, master_id, poolvars, pc, dip, histvars,
                   tid_log>>
    /\ IF trans.sync_lock_refs # ExpectedLockRefs(trans.type)
       THEN /\ trans' = [trans EXCEPT !.rootvol = "NULL"]
            /\ halt' = "panic_lock_refs"
       ELSE /\ trans' = [trans EXCEPT !.state = "closed",
                                      !.rootvol = "NULL",
                                      !.sync_lock_refs = 0,
                                      !.waits = DoneWaits(trans.type, trans.flags)]
            /\ halt' = halt

\* The work bracketed by a transaction: it sets flags and takes and drops
\* the mount's sync lock through the transaction.
SetFlag(f) ==
    /\ halt = "run"
    /\ trans.state = "active"
    /\ f \notin trans.flags
    /\ trans' = [trans EXCEPT !.flags = @ \cup {f}]
    /\ UNCHANGED <<next_tid, master_id, poolvars, pc, dip, halt, histvars,
                   tid_log>>

hammer_sync_lock ==
    /\ halt = "run"
    /\ trans.state = "active"
    /\ trans.sync_lock_refs < MaxSyncRefs
    /\ trans' = [trans EXCEPT !.sync_lock_refs = @ + 1]
    /\ UNCHANGED <<next_tid, master_id, poolvars, pc, dip, halt, histvars,
                   tid_log>>

hammer_sync_unlock ==
    /\ halt = "run"
    /\ trans.state = "active"
    /\ trans.sync_lock_refs > 0
    /\ trans' = [trans EXCEPT !.sync_lock_refs = @ - 1]
    /\ UNCHANGED <<next_tid, master_id, poolvars, pc, dip, halt, histvars,
                   tid_log>>

\* ------------------------------------------------------ specification
\* The object-id cache under concurrent callers, with the flusher drawing
\* tids from the same allocator.
Next ==
    \/ \E p \in Procs, d \in Dirs : hammer_alloc_objid(p, d)
    \/ \E p \in Procs : kmalloc_return(p)
    \/ \E d \in Dirs : hammer_clear_objid(d)
    \/ hammer_destroy_objid_cache
    \/ hammer_start_transaction_fls
    \/ hammer_done_transaction

Spec == Init /\ [][Next]_vars

\* The life of a transaction of any kind, beside one caller of
\* hammer_alloc_objid.
NextTrans ==
    \/ hammer_start_transaction
    \/ hammer_simple_transaction
    \/ hammer_start_transaction_fls
    \/ hammer_done_transaction
    \/ \E f \in TransFlags : SetFlag(f)
    \/ hammer_sync_lock
    \/ hammer_sync_unlock
    \/ \E d \in Dirs : hammer_alloc_objid("p1", d)
    \/ kmalloc_return("p1")

SpecTrans == Init /\ [][NextTrans]_vars

\* The object-id cache with one caller of hammer_alloc_objid at a time.
NextSeq ==
    \/ \E d \in Dirs : hammer_alloc_objid("p1", d)
    \/ kmalloc_return("p1")
    \/ \E d \in Dirs : hammer_clear_objid(d)
    \/ hammer_destroy_objid_cache
    \/ hammer_start_transaction_fls
    \/ hammer_done_transaction

SpecSeq == Init /\ [][NextSeq]_vars

\* The object-id cache serving more directories than it has entries for,
\* one caller of hammer_alloc_objid at a time.
NextLru ==
    \/ \E d \in AllDirs : hammer_alloc_objid("p1", d)
    \/ kmalloc_return("p1")
    \/ \E d \in AllDirs : hammer_clear_objid(d)
    \/ hammer_destroy_objid_cache

SpecLru == Init /\ [][NextLru]_vars

\* hammer_alloc_tid(hmp, count) called on its own, for any count, with the
\* calls serialized: each call's arguments and results are logged.
alloc_tid_call(count) ==
    /\ halt = "run"
    /\ Len(tid_log) < MaxCalls
    /\ LET r == hammer_alloc_tid(next_tid, master_id, count)
       IN  /\ next_tid' = r.next_tid
           /\ IF RanOutOfTids(r.tid)
              THEN /\ halt' = "panic_tid"
                   /\ UNCHANGED tid_log
              ELSE /\ halt' = halt
                   /\ tid_log' = Append(tid_log,
                          [from |-> next_tid, count |-> count,
                           tid |-> r.tid, to |-> r.next_tid])
    /\ UNCHANGED <<master_id, poolvars, pc, dip, trans, histvars>>

InitTid ==
    /\ next_tid \in 0 .. (TID_LIMIT - 1)
    /\ master_id \in MasterIds
    /\ InitMount

NextTid == \E count \in 1 .. MaxCount : alloc_tid_call(count)

SpecTid == InitTid /\ [][NextTid]_vars

\* ============================================================ claims
\* The ids one reservation covers: count slots, one apart on a single
\* master and HAMMER_MAX_MASTERS apart on a master of several.
Reserved(e) ==
    {e.tid + k * (IF master_id < 0 THEN 1 ELSE HAMMER_MAX_MASTERS) :
        k \in 0 .. (e.count - 1)}

\* C1: over any serialized sequence of hammer_alloc_tid(count) calls on one
\* mount, single-master or multi-master, the reserved ranges are pairwise
\* disjoint and every returned base is strictly greater than the base of
\* every earlier call.
C1_RangesDisjointIncreasing ==
    \A i, j \in 1 .. Len(tid_log) :
        i < j => /\ tid_log[i].tid < tid_log[j].tid
                 /\ Reserved(tid_log[i]) \cap Reserved(tid_log[j]) = {}
                 /\ \A x \in Reserved(tid_log[i]) : x < tid_log[j].tid

\* A multi-master mount on which two calls returned, each of them
\* reserving more than one id.
C1_Witness ==
    /\ master_id >= 0
    /\ Len(tid_log) = 2
    /\ tid_log[1].count > 1
    /\ tid_log[2].count > 1

\* The distance between two ids of one entry.
Stride == IF master_id < 0 THEN 1 ELSE HAMMER_MAX_MASTERS

\* This step is a return of hammer_alloc_objid.
IsObjidReturn == nissued' = nissued + 1 /\ fls_tids' = fls_tids

\* This step resumes a caller that was blocked in kmalloc.
IsResume == \E p \in Procs : pc[p] = "kmalloc" /\ pc'[p] = "idle"

InList(o, list) == \E i \in 1 .. Len(list) : list[i] = o

\* C2: after any sequence of hammer_alloc_objid (for any directories),
\* hammer_clear_objid and flusher transaction starts, no identifier was
\* handed out twice: the ids returned as OIDs and as flusher tids are as
\* many as the returns that handed them out.
C2_NoIdTwice == Cardinality(oids \cup fls_tids) = nissued

\* Ids of more than one entry were returned, one of them to a directory
\* whose previous entry was used up, beside a flusher tid.
C2_Witness ==
    /\ fls_tids # {}
    /\ Cardinality(oids) > OBJID_CACHE_BULK
    /\ ret.refill

\* C3: the pool never holds more than OBJID_CACHE_SIZE entries, callers
\* blocked in kmalloc between the capacity test and the insertion included.
C3_PoolWithinCapacity ==
    /\ Len(objid_cache_list) <= OBJID_CACHE_SIZE
    /\ objid_cache_count <= OBJID_CACHE_SIZE

\* C4: the binding of directories and entries is one to one: a directory's
\* objid_cache points to an entry whose dip is that directory, an entry's dip
\* is a directory whose objid_cache points to that entry, and no two entries
\* have the same dip; after any hammer_alloc_objid, hammer_clear_objid and
\* hammer_destroy_objid_cache.
C4_BindingOneToOne ==
    /\ \A d \in Dirs :
          objid_cache[d] # NULL =>
              /\ InList(objid_cache[d], objid_cache_list)
              /\ ocps[objid_cache[d]].dip = d
    /\ \A o \in Ocps :
          ocps[o].dip # "NULL" => objid_cache[ocps[o].dip] = o
    /\ \A o1, o2 \in Ocps :
          (o1 # o2 /\ ocps[o1].dip # "NULL") => ocps[o1].dip # ocps[o2].dip

\* An eviction has just rebound an entry while the other directory holds
\* an entry of its own.
C4_Witness ==
    /\ ret.how = "evict"
    /\ \A d \in Dirs : objid_cache[d] # NULL
    /\ Len(objid_cache_list) >= 2

\* C5: on a mount with master_id in 0 .. HAMMER_MAX_MASTERS - 1 every tid
\* and every object id handed out is master_id modulo HAMMER_MAX_MASTERS.
C5_MasterResidue ==
    master_id >= 0 =>
        \A t \in oids \cup fls_tids : t % HAMMER_MAX_MASTERS = master_id

\* Master 1 handed out a flusher tid and several object ids.
C5_Witness ==
    /\ master_id = 1
    /\ fls_tids # {}
    /\ Cardinality(oids) >= 2

\* This step consumes the last id of entry o.
TakesLast(o) ==
    /\ IsObjidReturn
    /\ ocps[o].live
    /\ ocps[o].count = 1
    /\ ocps[o].next_tid = ret'.tid

\* The entries this step inserts into the pool.
Inserted == IF IsResume THEN 1 ELSE 0

\* When a call consumes the last id of an entry, all OBJID_CACHE_BULK ids of
\* the entry have been returned, the entry is removed from the pool and
\* destroyed, the pool's count drops by one and the directory's pointer is
\* cleared.
C6_Depletion ==
    \A o \in Ocps :
        TakesLast(o) =>
            /\ \A k \in 0 .. (OBJID_CACHE_BULK - 1) :
                  (ret'.tid - k * Stride) \in oids'
            /\ ~ocps'[o].live
            /\ ~InList(o, objid_cache_list')
            /\ objid_cache_count' = objid_cache_count + Inserted - 1
            /\ objid_cache'[ret'.dip] = NULL

\* The returned id opens a range reserved by this step: it lies beyond
\* everything reserved before, the whole range lies below the new next_tid,
\* and the directory is bound to an entry holding the rest of the range.
FreshRange ==
    /\ next_tid < ret'.tid
    /\ ret'.tid + (OBJID_CACHE_BULK - 1) * Stride < next_tid'
    /\ objid_cache'[ret'.dip] # NULL
    /\ ocps'[objid_cache'[ret'.dip]].count = OBJID_CACHE_BULK - 1
    /\ ocps'[objid_cache'[ret'.dip]].next_tid = ret'.tid + Stride

\* This step is the return of the first call of a directory since it used
\* up its entry.
NextAfterDepletion == IsObjidReturn /\ ret'.dip \in depleted

\* C6 as claimed: depletion destroys the entry and clears the directory's
\* pointer, and the directory's next hammer_alloc_objid reserves a fresh
\* range of OBJID_CACHE_BULK ids from the TID allocator.
C6_NextAlwaysFresh ==
    [][C6_Depletion /\ (NextAfterDepletion => FreshRange)]_vars

\* C6 as amended: depletion destroys the entry and clears the directory's
\* pointer; the directory's next hammer_alloc_objid finds the directory
\* unbound and reserves a fresh range only if objid_cache_count is below
\* OBJID_CACHE_SIZE when it is called; with the count at capacity it takes
\* the next id of the entry at the head of the list and reserves nothing.
C6_NextFreshIfRoom ==
    [][/\ C6_Depletion
       /\ \A p \in Procs :
             (pc[p] = "idle" /\ pc'[p] = "kmalloc" /\ dip'[p] \in depleted)
                 => objid_cache_count < OBJID_CACHE_SIZE
       /\ NextAfterDepletion =>
             /\ objid_cache[ret'.dip] = NULL
             /\ IF IsResume
                THEN FreshRange
                ELSE /\ objid_cache_count >= OBJID_CACHE_SIZE
                     /\ next_tid' = next_tid
                     /\ ret'.tid = ocps[Head(objid_cache_list)].next_tid]_vars

\* A directory that had used up its entry was next served by an eviction.
C6_Witness == ret.refill /\ ret.how = "evict"

\* This step is a call of hammer_alloc_objid that returns at once, for a
\* directory without an entry, on a pool holding OBJID_CACHE_SIZE entries
\* or more.
IsEviction ==
    /\ IsObjidReturn
    /\ ~IsResume
    /\ objid_cache[ret'.dip] = NULL
    /\ Len(objid_cache_list) >= OBJID_CACHE_SIZE

\* What every eviction does: nothing is reserved, the id returned is the next
\* unused id of the entry at the head of the list, and the previous owner of
\* that entry loses its pointer.
C7_Eviction ==
    IsEviction =>
        LET e == Head(objid_cache_list)
        IN  /\ next_tid' = next_tid
            /\ ret'.tid = ocps[e].next_tid
            /\ ret'.tid \notin oids
            /\ ocps[e].dip # "NULL" => objid_cache'[ocps[e].dip] = NULL

\* The entry stays in the pool, bound to the caller's directory, with the
\* id after the returned one as its next id.
C7_Rebound ==
    LET e == Head(objid_cache_list)
    IN  /\ objid_cache_count' = objid_cache_count
        /\ objid_cache'[ret'.dip] = e
        /\ ocps'[e].dip = ret'.dip
        /\ ocps'[e].next_tid = ret'.tid + Stride
        /\ ocps'[e].count = ocps[e].count - 1

\* No caller blocks in kmalloc to create an entry while the pool holds
\* OBJID_CACHE_SIZE entries or more.
C7_NoReservation ==
    \A p \in Procs :
        (pc[p] = "idle" /\ pc'[p] = "kmalloc")
            => Len(objid_cache_list) < OBJID_CACHE_SIZE

\* C7 as claimed: at capacity a directory without an entry makes no
\* reservation; next_tid and the pool's count are unchanged, the eviction
\* candidate loses its previous owner, is bound to the directory and gives it
\* its next unused id.
C7_EvictKeepsCount ==
    [][C7_NoReservation /\ C7_Eviction /\ (IsEviction => C7_Rebound)]_vars

\* C7 as amended: as claimed, except when the id taken is the last id of the
\* evicted entry: then the entry is destroyed, the pool's count drops by one
\* and the directory is left without an entry.
C7_EvictUnlessLast ==
    [][/\ C7_NoReservation
       /\ C7_Eviction
       /\ IsEviction =>
             LET e == Head(objid_cache_list)
             IN  IF ocps[e].count > 1
                 THEN C7_Rebound
                 ELSE /\ objid_cache_count' = objid_cache_count - 1
                      /\ objid_cache'[ret'.dip] = NULL
                      /\ ~ocps'[e].live
                      /\ ~InList(e, objid_cache_list')]_vars

\* An eviction took the last id of the entry it evicted.
C7_Witness == ret.how = "evict" /\ ret.dip \in depleted

\* This step is hammer_done_transaction: only it drops the root volume.
IsDone == trans.state = "active" /\ trans'.rootvol = "NULL"

\* C8: hammer_done_transaction stops at its KKASSERT exactly when
\* sync_lock_refs differs from the value expected of the kind (1 for a
\* flusher transaction, 0 for a standard or read-only one); when it matches,
\* the call completes with sync_lock_refs = 0 and the root volume dropped.
C8_LockRefsChecked ==
    [][LET expected == IF trans.type = "FLS" THEN 1 ELSE 0
       IN  /\ (halt = "run" /\ halt' = "panic_lock_refs") => IsDone
           /\ IsDone =>
                 /\ (halt' = "panic_lock_refs")
                        <=> (trans.sync_lock_refs # expected)
                 /\ (trans.sync_lock_refs = expected) =>
                        /\ halt' = "run"
                        /\ trans'.state = "closed"
                        /\ trans'.sync_lock_refs = 0
                        /\ trans'.rootvol = "NULL"]_vars

\* A flusher transaction was ended with a count other than 1.
C8_Witness == halt = "panic_lock_refs" /\ trans.type = "FLS"

\* C9: a hammer_done_transaction that passes the lock check calls neither
\* wait for a flusher transaction, whatever its flags; for any other kind it
\* calls hammer_inode_waitreclaims exactly if NEWINODE is set and
\* hammer_inode_waithard exactly if DIDIO is set and NEWINODE is not, so
\* never both and none without a flag.  No wait is called anywhere else.
C9_WaitsByKindAndFlags ==
    /\ trans.state # "closed" => trans.waits = {}
    /\ trans.state = "closed" =>
          /\ trans.type = "FLS" => trans.waits = {}
          /\ trans.type # "FLS" =>
                /\ ("hammer_inode_waitreclaims" \in trans.waits)
                       <=> ("NEWINODE" \in trans.flags)
                /\ ("hammer_inode_waithard" \in trans.waits)
                       <=> ("DIDIO" \in trans.flags
                            /\ "NEWINODE" \notin trans.flags)
          /\ Cardinality(trans.waits) <= 1

\* A flusher transaction with both flags set was ended and waited for
\* nothing.
C9_Witness ==
    /\ trans.state = "closed"
    /\ trans.type = "FLS"
    /\ trans.flags = TransFlags
    /\ trans.waits = {}

\* This step starts a transaction.
IsStart == trans.state # "active" /\ trans'.state = "active"

\* C10: starting a flusher transaction takes exactly one hammer_alloc_tid of
\* count 1 and gives the transaction that tid, which is not 0, with
\* sync_lock_refs = 1 and no flags; starting a standard or read-only
\* transaction gives tid = 0, sync_lock_refs = 0 and no flags and leaves
\* next_tid and the object-id cache as they were.
C10_StartEffects ==
    [][IsStart =>
          IF trans'.type = "FLS"
          THEN LET r == hammer_alloc_tid(next_tid, master_id, 1)
               IN  /\ trans'.tid = r.tid
                   /\ next_tid' = r.next_tid
                   /\ trans'.tid # 0
                   /\ trans'.tid \in fls_tids'
                   /\ nissued' = nissued + 1
                   /\ trans'.sync_lock_refs = 1
                   /\ trans'.flags = {}
          ELSE /\ trans'.type \in {"STD", "RO"}
               /\ trans'.tid = 0
               /\ trans'.sync_lock_refs = 0
               /\ trans'.flags = {}
               /\ next_tid' = next_tid
               /\ UNCHANGED poolvars]_vars

\* A standard transaction was started on a mount whose pool holds an entry
\* and whose flusher has drawn a tid.
C10_Witness ==
    /\ trans.state = "active"
    /\ trans.type = "STD"
    /\ trans.tid = 0
    /\ fls_tids # {}
    /\ objid_cache_count > 0

\* This step clears the pointer of directory d and returns no id.
IsUnbind(d) ==
    /\ objid_cache[d] # NULL
    /\ objid_cache'[d] = NULL
    /\ nissued' = nissued

\* This step drains the pool as hammer_destroy_objid_cache does.
IsShutdown ==
    /\ nissued' = nissued
    /\ objid_cache_list # <<>>
    /\ objid_cache_list' = <<>>
    /\ \A d \in Dirs : objid_cache'[d] = NULL
    /\ \A o \in Ocps : InList(o, objid_cache_list) => ~ocps'[o].live

\* This step changes the pool and is neither a call nor a return of
\* hammer_alloc_objid nor a stop of the kernel.
PoolOnlyStep ==
    /\ nissued' = nissued
    /\ pc' = pc
    /\ halt' = halt
    /\ poolvars' # poolvars

\* What releasing the entry of directory d does: both pointers are cleared,
\* the entry lives on with its next id and its count, it is first in the
\* list with the other entries in their order behind it, and the pool's
\* count, next_tid and every other directory and entry are as they were.
ClearEffects(d) ==
    LET e == objid_cache[d]
    IN  /\ objid_cache' = [objid_cache EXCEPT ![d] = NULL]
        /\ ocps' = [ocps EXCEPT ![e].dip = "NULL"]
        /\ ocps'[e].live
        /\ ocps'[e].next_tid = ocps[e].next_tid
        /\ ocps'[e].count = ocps[e].count
        /\ objid_cache_count' = objid_cache_count
        /\ next_tid' = next_tid
        /\ objid_cache_list' = <<e>> \o SelectSeq(objid_cache_list,
                                                  LAMBDA x : x # e)
        /\ Head(objid_cache_list') = e

\* C11: hammer_clear_objid on a directory with an entry unbinds both sides
\* and destroys nothing: the pool's count, the entry's next id and count and
\* next_tid are unchanged and the entry becomes the head of the list, the
\* eviction candidate; a call of hammer_alloc_objid for a directory without
\* an entry on a pool at capacity returns the next id of the head of the
\* list.  On a directory without an entry hammer_clear_objid changes
\* nothing: the pool changes outside hammer_alloc_objid only by a release
\* of a bound entry or by the shutdown.
C11_ClearKeepsEntry ==
    [][/\ \A d \in Dirs :
             (IsUnbind(d) /\ ~IsShutdown) => ClearEffects(d)
       /\ (PoolOnlyStep /\ ~IsShutdown) =>
             \E d \in Dirs : objid_cache[d] # NULL /\ ClearEffects(d)
       /\ (/\ IsObjidReturn
           /\ ~IsResume
           /\ objid_cache[ret'.dip] = NULL
           /\ objid_cache_count >= OBJID_CACHE_SIZE) =>
             ret'.tid = ocps[Head(objid_cache_list)].next_tid]_vars

\* A released, partly used entry heads the list of a pool at capacity
\* behind which another entry waits: the next directory without an entry
\* is given the released entry.
C11_Witness ==
    /\ halt = "run"
    /\ objid_cache_count >= OBJID_CACHE_SIZE
    /\ Len(objid_cache_list) >= 2
    /\ ocps[Head(objid_cache_list)].dip = "NULL"
    /\ ocps[Head(objid_cache_list)].count < OBJID_CACHE_BULK
    /\ \E d \in Dirs : objid_cache[d] = NULL

\* No caller of hammer_alloc_objid is blocked in kmalloc.
Quiescent == \A p \in Procs : pc[p] = "idle"

\* This step empties a list that held entries and returns no id.
IsDrain ==
    /\ objid_cache_list # <<>>
    /\ objid_cache_list' = <<>>
    /\ nissued' = nissued

\* C12: on a mount with no hammer_alloc_objid in progress, every entry that
\* was created and not destroyed on depletion is linked in the list exactly
\* once and nothing else is; hammer_destroy_objid_cache terminates, leaves
\* the list empty and every directory's pointer cleared and destroys every
\* such entry, so each entry is destroyed once, none is left and none that
\* was destroyed on depletion is destroyed again.
C12_ShutdownDrains ==
    [][Quiescent =>
          /\ \A o \in Ocps : ocps[o].live <=> InList(o, objid_cache_list)
          /\ \A i, j \in 1 .. Len(objid_cache_list) :
                i # j => objid_cache_list[i] # objid_cache_list[j]
          /\ LET r == DestroyAll(objid_cache_list, objid_cache, ocps)
             IN  /\ r.list = <<>>
                 /\ \A d \in Dirs : r.cache[d] = NULL
                 /\ \A o \in Ocps : r.ents[o] = FreeOcp
          /\ IsDrain =>
                /\ \A d \in Dirs : objid_cache'[d] = NULL
                /\ \A o \in Ocps : ~ocps'[o].live
                /\ Quiescent']_vars

\* The shutdown has destroyed two entries or more on a mount where an
\* earlier entry had been destroyed on depletion.
C12_Witness ==
    /\ halt = "run"
    /\ Quiescent
    /\ objid_cache_list = <<>>
    /\ objid_cache_count >= 2
    /\ depleted # {}

\* C13: hammer_alloc_tid never returns a tid at or above the bound
\* (0xFFFFFFFFFF000000 in the source, TID_LIMIT here): every tid returned is
\* below it, and a call whose tid, master_id or-ed in, is at or above the
\* bound ends in the panic and returns nothing.
C13_NeverAtOrAboveBound ==
    [][/\ \A i \in 1 .. Len(tid_log') : tid_log'[i].tid < TID_LIMIT
       /\ \E count \in 1 .. MaxCount :
             LET r == hammer_alloc_tid(next_tid, master_id, count)
             IN  /\ next_tid' = r.next_tid
                 /\ IF r.tid >= TID_LIMIT
                    THEN halt' = "panic_tid" /\ tid_log' = tid_log
                    ELSE /\ halt' = "run"
                         /\ Len(tid_log') = Len(tid_log) + 1
                         /\ tid_log'[Len(tid_log')].tid = r.tid]_vars

\* On a master of several a call returned the last tid below the bound and
\* the call after it ended in the panic.
C13_Witness ==
    /\ halt = "panic_tid"
    /\ master_id >= 0
    /\ Len(tid_log) = 1
    /\ tid_log[1].tid = TID_LIMIT - 1

\* A single master started at next_tid = 100 and served hammer_alloc_tid(1)
\* and then hammer_alloc_tid(5).
Scenario100 ==
    /\ master_id = -1
    /\ Len(tid_log) = 2
    /\ tid_log[1].from = 100
    /\ tid_log[1].count = 1
    /\ tid_log[2].count = 5

\* C14 as claimed: from next_tid = 100 on a single master,
\* hammer_alloc_tid(1) returns 101 and leaves next_tid = 102, and the
\* hammer_alloc_tid(5) after it returns 102 and leaves next_tid = 107.
C14_ScenarioAsClaimed ==
    Scenario100 =>
        /\ tid_log[1].tid = 101
        /\ tid_log[1].to = 102
        /\ tid_log[2].from = 102
        /\ tid_log[2].tid = 102
        /\ tid_log[2].to = 107
        /\ next_tid = 107

\* C14 as amended: from next_tid = 100 on a single master,
\* hammer_alloc_tid(1) returns 101 and leaves next_tid = 102, and the
\* hammer_alloc_tid(5) after it returns 103 and leaves next_tid = 108.
C14_ScenarioAsCoded ==
    Scenario100 =>
        /\ tid_log[1].tid = 101
        /\ tid_log[1].to = 102
        /\ tid_log[2].from = 102
        /\ tid_log[2].tid = 103
        /\ tid_log[2].to = 108
        /\ next_tid = 108

\* Both calls of the scenario have returned.
C14_Witness == Scenario100 /\ halt = "run"

\* The smallest multiple of HAMMER_MAX_MASTERS that is >= n.
RoundUp(n) ==
    ((n + HAMMER_MAX_MASTERS - 1) \div HAMMER_MAX_MASTERS) * HAMMER_MAX_MASTERS

\* The smallest multiple of HAMMER_MAX_MASTERS that is > n.
NextMultiple(n) == ((n \div HAMMER_MAX_MASTERS) + 1) * HAMMER_MAX_MASTERS

\* C15 as claimed: on a master of several, for every next_tid, multiples of
\* HAMMER_MAX_MASTERS included, hammer_alloc_tid(count) returns
\* round_up(next_tid) | master_id and sets next_tid to
\* round_up(next_tid) + count * HAMMER_MAX_MASTERS, round_up giving the
\* smallest multiple of HAMMER_MAX_MASTERS that is >= next_tid.
C15_RoundUp ==
    master_id >= 0 =>
        \A i \in 1 .. Len(tid_log) :
            LET e == tid_log[i]
            IN  /\ e.tid = BitOr(RoundUp(e.from), master_id, TidBits)
                /\ e.to = RoundUp(e.from) + e.count * HAMMER_MAX_MASTERS

\* C15 as amended: on a master of several, for every next_tid,
\* hammer_alloc_tid(count) returns m | master_id and sets next_tid to
\* m + count * HAMMER_MAX_MASTERS, m being the smallest multiple of
\* HAMMER_MAX_MASTERS that is strictly greater than next_tid: a next_tid that
\* is a multiple already is stepped over.
C15_NextMultiple ==
    master_id >= 0 =>
        \A i \in 1 .. Len(tid_log) :
            LET e == tid_log[i]
            IN  /\ e.tid = BitOr(NextMultiple(e.from), master_id, TidBits)
                /\ e.to = NextMultiple(e.from) + e.count * HAMMER_MAX_MASTERS

\* A master of several served a call from a next_tid that was a multiple of
\* HAMMER_MAX_MASTERS, after a call from one that was not.
C15_Witness ==
    /\ master_id >= 0
    /\ Len(tid_log) = 2
    /\ tid_log[1].from % HAMMER_MAX_MASTERS # 0
    /\ tid_log[2].from % HAMMER_MAX_MASTERS = 0

\* Entry f is created by this step.
IsFresh(f) == ~ocps[f].live /\ ocps'[f].live

\* Caller p, blocked in kmalloc for a directory that has been given an entry
\* in the meantime, resumes: the new entry f is put into the pool unbound,
\* first in the list, counted, holding a whole range reserved by this step,
\* and the id returned is the next id of the entry the directory holds.
C16_InsertedUnbound(p) ==
    LET d == dip[p]
        e == objid_cache[d]
        r == hammer_alloc_tid(next_tid, master_id, OBJID_CACHE_BULK)
    IN  \E f \in Ocps :
            /\ IsFresh(f)
            /\ f # e
            /\ ocps'[f] = [live |-> TRUE, next_tid |-> r.tid,
                           count |-> OBJID_CACHE_BULK, dip |-> "NULL"]
            /\ next_tid' = r.next_tid
            /\ objid_cache_list' # <<>>
            /\ Head(objid_cache_list') = f
            /\ \A x \in Dirs : objid_cache'[x] # f
            /\ ret'.dip = d
            /\ ret'.tid = ocps[e].next_tid
            /\ objid_cache_count' =
                   objid_cache_count + 1 - (IF ocps[e].count = 1 THEN 1 ELSE 0)

\* Caller p resumes for a directory still without an entry: the new entry is
\* bound to it and gives it the first id of the range reserved by this step.
C16_BoundIfStillEmpty(p) ==
    LET d == dip[p]
        r == hammer_alloc_tid(next_tid, master_id, OBJID_CACHE_BULK)
    IN  \E f \in Ocps :
            /\ IsFresh(f)
            /\ next_tid' = r.next_tid
            /\ ret'.dip = d
            /\ ret'.tid = r.tid
            /\ objid_cache'[d] = f
            /\ ocps'[f].dip = d
            /\ ocps'[f].count = OBJID_CACHE_BULK - 1
            /\ InList(f, objid_cache_list')
            /\ objid_cache_count' = objid_cache_count + 1

\* Caller p resumes from kmalloc and hammer_alloc_objid returns.
Resumes(p) == pc[p] = "kmalloc" /\ pc'[p] = "idle" /\ halt' = "run"

\* C16 as claimed: a caller resumed for a directory that was given an entry
\* in the meantime inserts its new entry unbound and takes its id from the
\* directory's entry, and the directory keeps that entry; resumed for a
\* directory still without an entry, it binds the new entry to it.
C16_DirKeepsBinding ==
    [][\A p \in Procs :
          Resumes(p) =>
              IF objid_cache[dip[p]] # NULL
              THEN /\ C16_InsertedUnbound(p)
                   /\ objid_cache'[dip[p]] = objid_cache[dip[p]]
                   /\ ocps'[objid_cache[dip[p]]].dip = dip[p]
              ELSE C16_BoundIfStillEmpty(p)]_vars

\* C16 as amended: as claimed, except that the directory keeps its entry
\* only if the id taken was not the entry's last; if it was, the entry is
\* destroyed as on any depletion and the directory is left without one,
\* the new entry staying in the pool unbound.
C16_DirKeepsUnlessLast ==
    [][\A p \in Procs :
          Resumes(p) =>
              LET d == dip[p]
                  e == objid_cache[d]
              IN  IF e # NULL
                  THEN /\ C16_InsertedUnbound(p)
                       /\ IF ocps[e].count > 1
                          THEN /\ objid_cache'[d] = e
                               /\ ocps'[e].dip = d
                               /\ ocps'[e].count = ocps[e].count - 1
                          ELSE /\ objid_cache'[d] = NULL
                               /\ ~ocps'[e].live
                               /\ ~InList(e, objid_cache_list')
                  ELSE C16_BoundIfStillEmpty(p)]_vars

\* A resumed caller has just taken the last id of the entry its directory
\* was given in the meantime: the new entry heads the list, unbound and
\* whole, and the directory has no entry.
C16_Witness ==
    /\ halt = "run"
    /\ ret.how = "bound"
    /\ ret.dip \in depleted
    /\ objid_cache[ret.dip] = NULL
    /\ objid_cache_list # <<>>
    /\ ocps[Head(objid_cache_list)].dip = "NULL"
    /\ ocps[Head(objid_cache_list)].count = OBJID_CACHE_BULK

\* The entry this step's returned id was taken from.
Served(e) == ocps[e].live /\ ocps[e].next_tid = ret'.tid

\* Every entry in the pool is bound to a directory: none was released by
\* hammer_clear_objid and not claimed since, none was inserted unbound.
AllBound ==
    \A i \in 1 .. Len(objid_cache_list) :
        ocps[objid_cache_list[i]].dip # "NULL"

\* This step serves a directory without an entry from a pool at capacity
\* whose entries are all bound.
IsPressureEviction ==
    /\ IsObjidReturn
    /\ ~IsResume
    /\ objid_cache[ret'.dip] = NULL
    /\ objid_cache_count >= OBJID_CACHE_SIZE
    /\ AllBound

\* C17: under capacity pressure the entry evicted and rebound is the one
\* whose last use by hammer_alloc_objid is the oldest of all entries in the
\* pool, provided no entry in the pool is unbound (released by
\* hammer_clear_objid or inserted unbound); and the entry a
\* hammer_alloc_objid has just created or allocated from is the most
\* recently used one and the last in the list, the last to become the
\* eviction candidate.
C17_EvictsLeastRecentlyUsed ==
    [][/\ IsPressureEviction =>
             \E e \in Ocps :
                 /\ Served(e)
                 /\ ocps[e].dip # ret'.dip
                 /\ recency # <<>>
                 /\ e = Head(recency)
                 /\ \A i \in 1 .. Len(objid_cache_list) :
                       \E j \in 1 .. Len(recency) :
                           recency[j] = objid_cache_list[i]
                 /\ ocps'[e].live => ocps'[e].dip = ret'.dip
       /\ IsObjidReturn =>
             \A e \in Ocps :
                 (Served(e) /\ ocps'[e].live) =>
                     /\ objid_cache_list'[Len(objid_cache_list')] = e
                     /\ recency'[Len(recency')] = e
                     /\ Len(objid_cache_list') > 1 =>
                           Head(objid_cache_list') # e]_vars

\* All three directories have been served by a pool at capacity, the last of
\* them by an eviction, and every entry in the pool is bound: the directory
\* without an entry is next served by an eviction.
C17_Witness ==
    /\ halt = "run"
    /\ ret.how = "evict"
    /\ \A d \in AllDirs : last_oid[d] # 0
    /\ Len(objid_cache_list) = OBJID_CACHE_SIZE
    /\ objid_cache_count = OBJID_CACHE_SIZE
    /\ Len(recency) = OBJID_CACHE_SIZE
    /\ AllBound
    /\ \E d \in AllDirs : objid_cache[d] = NULL

\* C18: the ids hammer_alloc_objid returns to one directory are strictly
\* increasing: every id returned to a directory is greater than the id
\* returned to it before, whatever other directories allocate and whatever
\* is evicted, depleted or released in between.
C18_PerDirectoryIncreasing ==
    [][IsObjidReturn =>
          (last_oid[ret'.dip] # 0 => ret'.tid > last_oid[ret'.dip])]_vars

\* C19: every id hammer_alloc_objid returns is below the bound that
\* hammer_alloc_tid enforces on tids (0xFFFFFFFFFF000000 in the source,
\* TID_LIMIT here), also when the entry's range was reserved from a base
\* below the bound and reaches or passes it.
C19_OidsBelowBound == \A t \in oids : t < TID_LIMIT

\* C20: between operations hmp->objid_cache_count is the number of entries
\* linked in hmp->objid_cache_list, after any sequence of
\* hammer_alloc_objid, hammer_clear_objid and hammer_destroy_objid_cache;
\* so a hammer_alloc_objid that takes the branch for a pool at capacity
\* finds an entry at the head of the list and never reads through a null
\* pointer.
C20_CountIsListLength ==
    /\ objid_cache_count = Len(objid_cache_list)
    /\ halt # "fault"

====
